---- MODULE Spec2Model ----
(***************************************************************************)
(* The JWT authentication pipeline of the Express API:                     *)
(*   authenticateJWT -> refreshToken -> appendNewToken -> route handler    *)
(* (src/app/api/routes/auth.ts) together with the login / registration /   *)
(* logout handlers of both route families (the router of auth.ts and the   *)
(* controller functions loginUser / registerUser / logoutUser).            *)
(*                                                                         *)
(* Time is the wall clock in whole seconds, as Math.floor(Date.now()/1000) *)
(* and jsonwebtoken see it.  A token is the record of what jwt.sign put in *)
(* it (email, iat, exp) and of the key that signed it.                     *)
(***************************************************************************)
EXTENDS Integers, Sequences, FiniteSets, TLC

VARIABLES
    clock,      \* Math.floor(Date.now() / 1000)
    JWT,        \* const JWT = process.env.JWT_SECRET
    reqs,       \* the requests in flight on the protected routes (req, res)
    jar,        \* the browser's cookies: token and userId
    loggedOut,  \* tokens the jar held when logoutUser ran; the client kept them
    authResp    \* the last response of login / register / logout

vars == <<clock, JWT, reqs, jar, loggedOut, authResp>>

---------------------------------------------------------------------------
(* Bounds of the model *)

MaxReq == 1        \* requests in flight at once
MaxConcurrent == 2 \* requests in flight at once where they interleave

(* Program constants *)

TTL == 3600        \* expiresIn: "1h"
RenewWindow == 600 \* if (timeToExpire < 600)

---------------------------------------------------------------------------
(* Values *)

Secret == "s1"
OtherSecret == "s2"
Emails == {"a", "b"}
StartTimes == {0}  \* the instants logins and registrations happen at
UserIds == {"u1"}
NoId == "noid"

\* the requests in flight are numbered from 1
Reqs == DOMAIN reqs

Tok(email, iat, exp, key) ==
    [kind |-> "jwt", email |-> email, iat |-> iat, exp |-> exp, key |-> key]
Atom(kind) == [kind |-> kind, email |-> "", iat |-> 0, exp |-> 0, key |-> ""]
NoToken == Atom("none")
Malformed == Atom("bad")
Space == Atom("sp")
Bearer == Atom("word")

NoPayload == [email |-> "", iat |-> 0, exp |-> 0]

\* The instants the clock is observed at: the starts, and around the renewal
\* threshold and the expiry of a token issued at a start.
Offsets == {TTL - RenewWindow - 1, TTL - RenewWindow, TTL - RenewWindow + 1,
            TTL - 1, TTL, TTL + 1}
Times == StartTimes \cup {s + o : s \in StartTimes, o \in Offsets}

---------------------------------------------------------------------------
(* jsonwebtoken, as the handlers call it *)

\* jwt.sign({ email }, JWT, { expiresIn: "1h" }) at the instant now
jwtSign(email, secret, now) == Tok(email, now, now + TTL, secret)

\* The string a request presents decodes to a token only when it is exactly
\* one; anything else (a scheme word, two tokens run together) is malformed.
TokenOf(str) ==
    IF Len(str) = 1 /\ str[1].kind = "jwt" THEN str[1] ELSE Malformed

PayloadOf(t) == [email |-> t.email, iat |-> t.iat, exp |-> t.exp]

\* jwt.verify as it accepted a token whose exp equals the clock
jwtVerifyLate(str, secret, now) ==
    LET t == TokenOf(str) IN
    IF t.kind = "jwt" /\ t.key = secret /\ now <= t.exp
    THEN [ok |-> TRUE, payload |-> PayloadOf(t)]
    ELSE [ok |-> FALSE, payload |-> NoPayload]

\* jwt.verify(token, JWT): malformed, wrong signature, or expired
\* (clockTimestamp >= payload.exp) is an error; otherwise the payload.
jwtVerify(str, secret, now) ==
    LET t == TokenOf(str) IN
    IF t.kind = "jwt" /\ t.key = secret /\ now < t.exp
    THEN [ok |-> TRUE, payload |-> PayloadOf(t)]
    ELSE [ok |-> FALSE, payload |-> NoPayload]

---------------------------------------------------------------------------
(* The Authorization request header *)

NoHeader == [present |-> FALSE, chars |-> <<>>]
Header(chars) == [present |-> TRUE, chars |-> chars]

\* String.prototype.split(" "): cut at every single space
RECURSIVE SplitSp(_, _)
SplitSp(s, cur) ==
    IF s = <<>> THEN <<cur>>
    ELSE IF Head(s) = Space THEN <<cur>> \o SplitSp(Tail(s), <<>>)
    ELSE SplitSp(Tail(s), Append(cur, Head(s)))

Undefined == [defined |-> FALSE, str |-> <<>>]
Str(s) == [defined |-> TRUE, str |-> s]

\* JavaScript truthiness of a string or undefined
Truthy(x) == x.defined /\ x.str # <<>>

\* the extraction taking the first piece of the header, [0]
ExtractTokenFirst(hdr) ==
    IF ~hdr.present THEN Undefined
    ELSE Str(SplitSp(hdr.chars, <<>>)[1])

\* req.headers.authorization?.split(" ")[1]
ExtractToken(hdr) ==
    IF ~hdr.present THEN Undefined
    ELSE LET parts == SplitSp(hdr.chars, <<>>) IN
         IF Len(parts) >= 2 THEN Str(parts[2]) ELSE Undefined

---------------------------------------------------------------------------
(* One request on a protected route: req, res and what was observed of it *)

Idle ==
    [pc |-> "idle",            \* the stage that runs next
     hdr |-> NoHeader,         \* req.headers.authorization
     user |-> NoPayload,       \* req.user
     newToken |-> NoToken,     \* res.locals.newToken
     authHeader |-> NoToken,   \* the Authorization response header
     jsonWrapped |-> FALSE,    \* res.json is appendNewToken's wrapper
     status |-> 0,             \* the status sent, 0 while nothing is sent
     bodyToken |-> NoToken,    \* the token field of the JSON body sent
     sentAuth |-> NoToken,     \* the Authorization header when the body went out
     sentBy |-> "none",        \* the stage that sent the response
     afterLogout |-> FALSE,    \* it presents a token that logoutUser cleared
     invoked |-> {},           \* the stages that ran
     verifications |-> 0,      \* calls of jwt.verify on the token
     verifiedAt |-> 0,         \* the clock at the latest of them
     rtNow |-> 0,              \* currentTime as refreshToken read it
     signThrew |-> FALSE,      \* jwt.sign threw inside refreshToken
     setHeaderCalls |-> 0,     \* calls of res.setHeader("Authorization", ..)
     jsonCalls |-> 0,          \* calls of the wrapped res.json
     bodyTokenWrites |-> 0]    \* assignments data.token = res.locals.newToken

\* a JSON payload: a plain object, a Sequelize row (it carries the stored
\* token column) or an array of rows
StoredToken == Atom("stored")
ObjectData == [kind |-> "object", token |-> NoToken]
RowData == [kind |-> "object", token |-> StoredToken]
ArrayData == [kind |-> "array", token |-> NoToken]

\* res.sendStatus(code)
sendStatus(q, code, by) ==
    [q EXCEPT !.status = code, !.sentAuth = q.authHeader, !.sentBy = by,
              !.pc = "done"]

\* Express's own res.status(code).json(data): the body is JSON.stringify(data),
\* which keeps an object's token field and drops a property set on an array.
originalJson(q, code, data, by) ==
    [q EXCEPT !.status = code, !.sentAuth = q.authHeader, !.sentBy = by,
              !.bodyToken = IF data.kind = "object" THEN data.token ELSE NoToken,
              !.pc = "done"]

\* the wrapper attaching the presented token's header value again
wrappedJsonStale(q, code, data, by) ==
    IF q.newToken # NoToken
    THEN originalJson(
             [q EXCEPT !.authHeader = TokenOf(ExtractToken(q.hdr).str),
                       !.setHeaderCalls = @ + 1,
                       !.bodyTokenWrites = @ + 1,
                       !.jsonCalls = @ + 1],
             code, [data EXCEPT !.token = q.newToken], by)
    ELSE originalJson([q EXCEPT !.jsonCalls = @ + 1], code, data, by)

\* the wrapper deleting res.locals.newToken once it attached it
wrappedJsonClearing(q, code, data, by) ==
    IF q.newToken # NoToken
    THEN originalJson(
             [q EXCEPT !.authHeader = q.newToken,
                       !.setHeaderCalls = @ + 1,
                       !.bodyTokenWrites = @ + 1,
                       !.jsonCalls = @ + 1,
                       !.newToken = NoToken],
             code, [data EXCEPT !.token = q.newToken], by)
    ELSE originalJson([q EXCEPT !.jsonCalls = @ + 1], code, data, by)

\* res.json as appendNewToken replaced it
wrappedJson(q, code, data, by) ==
    IF q.newToken # NoToken
    THEN originalJson(
             [q EXCEPT !.authHeader = q.newToken,
                       !.setHeaderCalls = @ + 1,
                       !.bodyTokenWrites = @ + 1,
                       !.jsonCalls = @ + 1],
             code, [data EXCEPT !.token = q.newToken], by)
    ELSE originalJson([q EXCEPT !.jsonCalls = @ + 1], code, data, by)

\* res.status(code).json(data), whichever function res.json is by then
resJson(q, code, data, by) ==
    IF q.jsonWrapped THEN wrappedJson(q, code, data, by)
    ELSE originalJson(q, code, data, by)

---------------------------------------------------------------------------
(* The middlewares, as functions of the request and the clock *)

\* authenticateJWT(req, res, next)
authenticateJWT(q, secret, now) ==
    LET token == ExtractToken(q.hdr)
        q1 == [q EXCEPT !.invoked = @ \cup {"authenticateJWT"}]
    IN  IF ~Truthy(token)
        THEN sendStatus(q1, 401, "authenticateJWT")
        ELSE LET v == jwtVerify(token.str, secret, now)
                 q2 == [q1 EXCEPT !.verifiedAt = now, !.verifications = @ + 1]
             IN  IF ~v.ok
                 THEN sendStatus(q2, 403, "authenticateJWT")
                 ELSE [q2 EXCEPT !.user = v.payload, !.pc = "refreshToken"]

\* the renewal test with the threshold included
ShouldRenewInclusive(timeToExpire) == timeToExpire <= RenewWindow

\* if (timeToExpire < 600)
ShouldRenew(timeToExpire) == timeToExpire < RenewWindow

\* req.user taken from the replacement token when one was minted
RefreshedUserFromNew(decoded, newToken) ==
    IF newToken # NoToken THEN PayloadOf(newToken) ELSE decoded

\* req.user = decoded
RefreshedUser(decoded, newToken) == decoded

\* refreshToken(req, res, next).  verifyNow is the clock jwt.verify read,
\* currentTime the one Math.floor(Date.now() / 1000) read after it;
\* signThrows tells whether jwt.sign throws.
refreshToken(q, secret, verifyNow, currentTime, signThrows) ==
    LET token == ExtractToken(q.hdr)
        q1 == [q EXCEPT !.invoked = @ \cup {"refreshToken"}]
    IN  IF ~Truthy(token)
        THEN resJson(q1, 401, ObjectData, "refreshToken")
        ELSE LET v == jwtVerify(token.str, secret, verifyNow)
                 q2 == [q1 EXCEPT !.verifiedAt = verifyNow,
                                  !.verifications = @ + 1]
                 decoded == v.payload
                 timeToExpire == decoded.exp - currentTime
                 newToken == jwtSign(decoded.email, secret, currentTime)
                 q3 == [q2 EXCEPT !.rtNow = currentTime]
             IN  IF ~v.ok
                 THEN resJson(q2, 401, ObjectData, "refreshToken")
                 ELSE IF ShouldRenew(timeToExpire)
                 THEN IF signThrows
                      THEN resJson([q3 EXCEPT !.signThrew = TRUE],
                                   401, ObjectData, "refreshToken")
                      ELSE [q3 EXCEPT !.newToken = newToken,
                                      !.authHeader = newToken,
                                      !.setHeaderCalls = @ + 1,
                                      !.user = RefreshedUser(decoded, newToken),
                                      !.pc = "appendNewToken"]
                 ELSE [q3 EXCEPT !.user = RefreshedUser(decoded, NoToken),
                                 !.pc = "appendNewToken"]

\* appendNewToken(req, res, next)
appendNewToken(q) ==
    [q EXCEPT !.invoked = @ \cup {"appendNewToken"},
              !.jsonWrapped = TRUE,
              !.pc = "handler"]

---------------------------------------------------------------------------
(* The protected route handlers of the router.  The User model is outside
   these files: found tells whether User.findOne returned a row, dbThrows
   whether a User call threw, showProfile is the row's column. *)

\* The handler was entered when appendNewToken called next(); it answers
\* once its User call settled.  What was observed of the middleware stages
\* (the clock readings) is dropped with the answer.
Ran(q) ==
    [q EXCEPT !.invoked = @ \cup {"handler"},
              !.verifiedAt = 0, !.verifications = 0, !.rtNow = 0]

\* router.get("/:userId/userInfo", ...)
routerGetUserInfo(q, found, dbThrows) ==
    LET q1 == Ran(q) IN
    IF dbThrows THEN resJson(q1, 500, ObjectData, "handler")
    ELSE IF ~found THEN resJson(q1, 404, ObjectData, "handler")
    ELSE resJson(q1, 200, ObjectData, "handler")

\* router.put("/:userId/userInfo", ...)
routerPutUserInfo(q, found, dbThrows) ==
    LET q1 == Ran(q) IN
    IF dbThrows THEN resJson(q1, 500, ObjectData, "handler")
    ELSE IF ~found THEN resJson(q1, 404, ObjectData, "handler")
    ELSE resJson(q1, 200, ObjectData, "handler")

\* router.get("/allUsersPublicProfiles", ...)
routerAllUsersPublicProfiles(q, dbThrows) ==
    LET q1 == Ran(q) IN
    IF dbThrows THEN resJson(q1, 500, ObjectData, "handler")
    ELSE resJson(q1, 200, ArrayData, "handler")

\* router.get("publicProfile/:userId", ...)
routerPublicProfile(q, found, showProfile, dbThrows) ==
    LET q1 == Ran(q) IN
    IF dbThrows THEN resJson(q1, 500, ObjectData, "handler")
    ELSE IF ~found THEN resJson(q1, 404, ObjectData, "handler")
    ELSE IF ~showProfile THEN resJson(q1, 403, ObjectData, "handler")
    ELSE resJson(q1, 200, RowData, "handler")

---------------------------------------------------------------------------
(* Login, registration, logout.  The User model and bcrypt are outside
   these files: found tells whether User.findOne returned a row, validPassword
   what bcrypt.compare answered, dbThrows whether a User call threw, id is the
   row's id. *)

NoCookies == [token |-> NoToken, userId |-> NoId]

\* what a login / register / logout call answered, and the cookies it set
AuthResp(op, family, status, cookies) ==
    [op |-> op, family |-> family, status |-> status, cookies |-> cookies]
NoAuthResp == AuthResp("none", "none", 0, {})

\* setTokenCookie(res, token) of the router, setTokenInCookies(res, token) of
\* the controllers
setTokenCookie(j, token) == [j EXCEPT !.token = token]
setTokenInCookies(j, token) == [j EXCEPT !.token = token]
\* setUserIdInCookies(res, user.id)
setUserIdInCookies(j, id) == [j EXCEPT !.userId = id]

\* router.post("/register", ...): only the token cookie is set
routerRegister(email, dbThrows) ==
    LET token == jwtSign(email, JWT, clock)
    IN  /\ clock \in StartTimes
        /\ IF dbThrows
           THEN /\ authResp' = AuthResp("register", "router", 500, {})
                /\ jar' = jar
           ELSE /\ jar' = setTokenCookie(jar, token)
                /\ authResp' = AuthResp("register", "router", 201, {"token"})
        /\ UNCHANGED <<clock, JWT, reqs, loggedOut>>

\* router.post("/login", ...): only the token cookie is set
routerLogin(email, found, validPassword, dbThrows) ==
    LET token == jwtSign(email, JWT, clock)
    IN  /\ clock \in StartTimes
        /\ IF dbThrows
           THEN /\ authResp' = AuthResp("login", "router", 500, {})
                /\ jar' = jar
           ELSE IF ~found
           THEN /\ authResp' = AuthResp("login", "router", 401, {})
                /\ jar' = jar
           ELSE IF ~validPassword
           THEN /\ authResp' = AuthResp("login", "router", 401, {})
                /\ jar' = jar
           ELSE /\ jar' = setTokenCookie(jar, token)
                /\ authResp' = AuthResp("login", "router", 200, {"token"})
        /\ UNCHANGED <<clock, JWT, reqs, loggedOut>>

\* registerUser(req, res) of the controllers; valid is the outcome of
\* registrationSchema.safeParse
registerUser(email, id, valid, dbThrows) ==
    LET token == jwtSign(email, JWT, clock)
    IN  /\ clock \in StartTimes
        /\ IF ~valid
           THEN /\ authResp' = AuthResp("register", "controller", 400, {})
                /\ jar' = jar
           ELSE IF dbThrows
           THEN /\ authResp' = AuthResp("register", "controller", 500, {})
                /\ jar' = jar
           ELSE /\ jar' = setUserIdInCookies(setTokenInCookies(jar, token), id)
                /\ authResp' = AuthResp("register", "controller", 201,
                                        {"token", "userId"})
        /\ UNCHANGED <<clock, JWT, reqs, loggedOut>>

\* loginUser(req, res) of the controllers; valid is the outcome of
\* loginSchema.safeParse
loginUser(email, id, valid, found, validPassword, dbThrows) ==
    LET token == jwtSign(email, JWT, clock)
    IN  /\ clock \in StartTimes
        /\ IF ~valid
           THEN /\ authResp' = AuthResp("login", "controller", 400, {})
                /\ jar' = jar
           ELSE IF dbThrows
           THEN /\ authResp' = AuthResp("login", "controller", 500, {})
                /\ jar' = jar
           ELSE IF ~found
           THEN /\ authResp' = AuthResp("login", "controller", 401, {})
                /\ jar' = jar
           ELSE IF ~validPassword
           THEN /\ authResp' = AuthResp("login", "controller", 401, {})
                /\ jar' = jar
           ELSE /\ jar' = setUserIdInCookies(setTokenInCookies(jar, token), id)
                /\ authResp' = AuthResp("login", "controller", 200,
                                        {"token", "userId"})
        /\ UNCHANGED <<clock, JWT, reqs, loggedOut>>

\* a logout that also rotates the signing secret
logoutUserRotating ==
    /\ jar' = NoCookies
    /\ JWT' = OtherSecret
    /\ loggedOut' = (loggedOut \cup {jar.token}) \ {NoToken}
    /\ authResp' = AuthResp("logout", "controller", 200, {})
    /\ UNCHANGED <<clock, reqs>>

\* logoutUser(req, res): res.clearCookie("token"); res.clearCookie("userId").
\* The client may still hold a copy of the token it had.
logoutUser ==
    /\ jar' = NoCookies
    /\ loggedOut' = (loggedOut \cup {jar.token}) \ {NoToken}
    /\ authResp' = AuthResp("logout", "controller", 200, {})
    /\ UNCHANGED <<clock, JWT, reqs>>

---------------------------------------------------------------------------
(* The client and the clock *)

\* a token signed under another key, and not expired at any observed instant
Forged == Tok("a", 0, 3 * TTL, OtherSecret)

\* the tokens of the server the client can present
Own == (loggedOut \cup {jar.token}) \ {NoToken}

Headers ==
    {NoHeader, Header(<<>>), Header(<<Bearer>>), Header(<<Bearer, Space>>),
     Header(<<Bearer, Space, Malformed>>), Header(<<Bearer, Space, Forged>>)}
    \cup {Header(<<Bearer, Space, t>>) : t \in Own}
    \cup {Header(<<Bearer, Space, Space, t>>) : t \in Own}
    \cup {Header(<<Bearer, Space, t, t>>) : t \in Own}

\* the client reads the response; the request is over
ClientReceives(r) ==
    /\ reqs[r].pc = "done"
    /\ reqs' = [reqs EXCEPT ![r] = Idle]
    /\ UNCHANGED <<clock, JWT, jar, loggedOut, authResp>>

\* the browser reads the answer of a login, a registration or a logout
ClientReadsAuth ==
    /\ authResp # NoAuthResp
    /\ authResp' = NoAuthResp
    /\ UNCHANGED <<clock, JWT, reqs, jar, loggedOut>>

\* time passes
Tick ==
    /\ \E t \in Times : t > clock /\ clock' = t
    /\ UNCHANGED <<JWT, reqs, jar, loggedOut, authResp>>

---------------------------------------------------------------------------
(* The pipeline steps of one request *)

\* a stage that kept the staged token and the decoded identity in variables
\* of the module, which every request in the pipeline then reads
StepShared(r, q) ==
    /\ reqs' = [x \in DOMAIN reqs |->
                  IF x = r THEN q
                  ELSE IF reqs[x].pc \in {"refreshToken", "appendNewToken",
                                          "handler"}
                       THEN [reqs[x] EXCEPT !.newToken = q.newToken,
                                            !.user = q.user]
                       ELSE reqs[x]]
    /\ UNCHANGED <<JWT, jar, loggedOut, authResp>>

\* a stage runs on the req and res of one request: req.user, res.locals and
\* res.json belong to that request's own objects
Step(r, q) ==
    /\ reqs' = [reqs EXCEPT ![r] = q]
    /\ UNCHANGED <<JWT, jar, loggedOut, authResp>>

\* a request arrives on a protected route and Express runs the first
\* middleware of the route on it; the browser sends none while it waits for
\* the answer of a login, a registration or a logout
AuthenticateJWT(r, hdr) ==
    /\ reqs[r].pc = "idle"
    /\ \A r2 \in Reqs : r2 < r => reqs[r2].pc # "idle"
    /\ authResp = NoAuthResp
    /\ Step(r, authenticateJWT(
                   [Idle EXCEPT !.hdr = hdr,
                                !.afterLogout = \E t \in loggedOut :
                                    hdr = Header(<<Bearer, Space, t>>)],
                   JWT, clock))
    /\ clock' = clock

\* the second may turn between jwt.verify and Date.now()
RefreshToken(r, signThrows) ==
    /\ reqs[r].pc = "refreshToken"
    /\ \E currentTime \in {clock, clock + 1} :
          /\ currentTime \in Times
          /\ Step(r, refreshToken(reqs[r], JWT, clock, currentTime, signThrows))
          /\ clock' = currentTime

AppendNewToken(r) ==
    /\ reqs[r].pc = "appendNewToken"
    /\ Step(r, appendNewToken(reqs[r]))
    /\ clock' = clock

GetUserInfo(r) ==
    /\ reqs[r].pc = "handler"
    /\ \E found \in BOOLEAN, dbThrows \in BOOLEAN :
          Step(r, routerGetUserInfo(reqs[r], found, dbThrows))
    /\ clock' = clock

PutUserInfo(r) ==
    /\ reqs[r].pc = "handler"
    /\ \E found \in BOOLEAN, dbThrows \in BOOLEAN :
          Step(r, routerPutUserInfo(reqs[r], found, dbThrows))
    /\ clock' = clock

AllUsersPublicProfiles(r) ==
    /\ reqs[r].pc = "handler"
    /\ \E dbThrows \in BOOLEAN :
          Step(r, routerAllUsersPublicProfiles(reqs[r], dbThrows))
    /\ clock' = clock

PublicProfile(r) ==
    /\ reqs[r].pc = "handler"
    /\ \E found \in BOOLEAN, showProfile \in BOOLEAN, dbThrows \in BOOLEAN :
          Step(r, routerPublicProfile(reqs[r], found, showProfile, dbThrows))
    /\ clock' = clock

---------------------------------------------------------------------------
(* Specifications *)

Init ==
    /\ clock = 0
    /\ JWT = Secret
    /\ reqs = [r \in 1 .. MaxReq |-> Idle]
    /\ jar = NoCookies
    /\ loggedOut = {}
    /\ authResp = NoAuthResp

\* the browser sends a login, a registration or a logout when it waits for
\* no other answer
BrowserIdle ==
    /\ authResp = NoAuthResp
    /\ \A r \in Reqs : reqs[r].pc = "idle"

Register ==
    /\ BrowserIdle
    /\ \E email \in Emails, dbThrows \in BOOLEAN :
          routerRegister(email, dbThrows)

Login ==
    /\ BrowserIdle
    /\ \E email \in Emails, found \in BOOLEAN, validPassword \in BOOLEAN,
          dbThrows \in BOOLEAN :
          routerLogin(email, found, validPassword, dbThrows)

RegisterUser ==
    /\ BrowserIdle
    /\ \E email \in Emails, id \in UserIds, valid \in BOOLEAN,
          dbThrows \in BOOLEAN :
          registerUser(email, id, valid, dbThrows)

LoginUser ==
    /\ BrowserIdle
    /\ \E email \in Emails, id \in UserIds, valid \in BOOLEAN,
          found \in BOOLEAN, validPassword \in BOOLEAN, dbThrows \in BOOLEAN :
          loginUser(email, id, valid, found, validPassword, dbThrows)

Logout == BrowserIdle /\ logoutUser

Receive == \E r \in Reqs : ClientReceives(r)
Authenticate == \E r \in Reqs, hdr \in Headers : AuthenticateJWT(r, hdr)
Refresh == \E r \in Reqs : RefreshToken(r, FALSE)
RefreshSignThrows == \E r \in Reqs : RefreshToken(r, TRUE)
AppendStep == \E r \in Reqs : AppendNewToken(r)
HandleGet == \E r \in Reqs : GetUserInfo(r)
HandlePut == \E r \in Reqs : PutUserInfo(r)
HandleAll == \E r \in Reqs : AllUsersPublicProfiles(r)
HandlePublic == \E r \in Reqs : PublicProfile(r)

Next ==
    \/ Register
    \/ Login
    \/ RegisterUser
    \/ LoginUser
    \/ Logout
    \/ ClientReadsAuth
    \/ Receive
    \/ Tick
    \/ Authenticate
    \/ Refresh
    \/ AppendStep
    \/ HandleGet
    \/ HandlePut
    \/ HandleAll
    \/ HandlePublic

Spec == Init /\ [][Next]_vars

\* the same program with jwt.sign allowed to throw inside refreshToken
NextSignFault == Next \/ RefreshSignThrows

SpecSignFault == Init /\ [][NextSignFault]_vars

\* the same program with several requests in the pipeline at once, their
\* stages interleaved in any order
InitConcurrent ==
    /\ clock = 0
    /\ JWT = Secret
    /\ reqs = [r \in 1 .. MaxConcurrent |-> Idle]
    /\ jar = NoCookies
    /\ loggedOut = {}
    /\ authResp = NoAuthResp

SpecConcurrent == InitConcurrent /\ [][Next]_vars

---------------------------------------------------------------------------
(* Properties *)

\* the words of a header: its maximal runs of characters other than a space
WordCount(chars) ==
    Cardinality({i \in 1 .. Len(chars) :
                    /\ chars[i] # Space
                    /\ (i = 1 \/ chars[i - 1] = Space)})

\* no Authorization header, or one with no second word
NoCredential(hdr) == ~hdr.present \/ WordCount(hdr.chars) < 2

\* the token of a header of the form "Bearer <token>"
PresentedToken(q) ==
    IF q.hdr.present /\ Len(q.hdr.chars) >= 3 /\ q.hdr.chars[3].kind = "jwt"
       /\ Len(q.hdr.chars) = 3
    THEN q.hdr.chars[3]
    ELSE NoToken

\* the request passed authenticateJWT
PastGate(q) == q.pc \in {"refreshToken", "appendNewToken", "handler"}

\* the request passed refreshToken
PastRefresh(q) == q.pc \in {"appendNewToken", "handler"}

HandlerInvoked(q) == q.pc = "handler" \/ "handler" \in q.invoked

\* C1: a request that presents no credential (no Authorization header, or a
\* header with no second token) is answered 401 by authenticateJWT, and
\* refreshToken, appendNewToken and the handler never run for it.
C1_NoCredentialIs401 ==
    \A r \in Reqs :
        (reqs[r].pc # "idle" /\ NoCredential(reqs[r].hdr)) =>
            /\ reqs[r].pc = "done"
            /\ reqs[r].status = 401
            /\ reqs[r].sentBy = "authenticateJWT"
            /\ reqs[r].invoked = {"authenticateJWT"}
            /\ reqs[r].user = NoPayload

\* a request whose header is "Bearer " (the scheme and nothing after the
\* space) was answered
C1_Witness ==
    \E r \in Reqs :
        /\ reqs[r].hdr = Header(<<Bearer, Space>>)
        /\ reqs[r].pc = "done"
        /\ reqs[r].status = 401

\* the presented credential fails verification at the clock of the latest
\* jwt.verify performed on it
FailsVerification(q) ==
    LET token == ExtractToken(q.hdr) IN
    /\ q.verifications > 0
    /\ \/ TokenOf(token.str).kind # "jwt"
       \/ TokenOf(token.str).key # JWT
       \/ q.verifiedAt >= TokenOf(token.str).exp

\* C2: a credential that fails verification, in authenticateJWT or in
\* refreshToken, is answered 403 and the handler does not run.
C2_VerificationFailureIs403 ==
    \A r \in Reqs :
        FailsVerification(reqs[r]) =>
            /\ reqs[r].status = 403
            /\ ~HandlerInvoked(reqs[r])

\* C3: a request that reached the handler (or any stage past the gate)
\* presented a token signed under the process secret whose expiry is strictly
\* later than the clock of each verification performed on it.
C3_AcceptedMeansValid ==
    \A r \in Reqs :
        LET q == reqs[r]
            t == PresentedToken(q)
        IN  /\ PastGate(q) =>
                /\ t.kind = "jwt"
                /\ t.key = Secret
                /\ t.exp > q.verifiedAt
                /\ q.verifications = (IF q.pc = "refreshToken" THEN 1 ELSE 2)
            /\ HandlerInvoked(q) =>
                /\ t.kind = "jwt"
                /\ t.key = Secret

\* the handler was entered for a token verified in its last valid second
C3_Witness ==
    \E r \in Reqs :
        /\ reqs[r].pc = "handler"
        /\ reqs[r].verifiedAt = PresentedToken(reqs[r]).exp - 1

\* C4: refreshToken stages a replacement exactly when exp - currentTime < 600;
\* at 600 or more it stages none.
C4_RenewIffBelowThreshold ==
    \A r \in Reqs :
        LET q == reqs[r] IN
        PastRefresh(q) =>
            ((q.newToken # NoToken) <=> (PresentedToken(q).exp - q.rtNow < 600))

\* refreshToken ran with exactly 600 seconds left and staged nothing
C4_Witness ==
    \E r \in Reqs :
        /\ PastRefresh(reqs[r])
        /\ PresentedToken(reqs[r]).exp - reqs[r].rtNow = 600
        /\ reqs[r].newToken = NoToken

\* C5: once a replacement is minted the Authorization response header holds
\* it, and the response that goes out carries it, whichever branch answered.
C5_MintedIsDelivered ==
    \A r \in Reqs :
        LET q == reqs[r] IN
        q.newToken # NoToken =>
            /\ q.authHeader = q.newToken
            /\ q.pc = "done" =>
                  /\ q.sentBy = "handler"
                  /\ q.sentAuth = q.newToken

\* a handler answered 500 for a request whose token had been renewed
C5_Witness ==
    \E r \in Reqs :
        /\ reqs[r].pc = "done"
        /\ reqs[r].status = 500
        /\ reqs[r].newToken # NoToken
        /\ reqs[r].sentAuth = reqs[r].newToken

\* C6: when jwt.sign throws inside refreshToken the request is not failed:
\* the handler runs and answers, with no renewal attached.
C6_SignFailureDoesNotFail ==
    \A r \in Reqs :
        (reqs[r].signThrew /\ reqs[r].pc = "done") =>
            /\ reqs[r].sentBy = "handler"
            /\ reqs[r].sentAuth = NoToken

\* C7: req.user is the payload of the presented token at every stage past
\* the gate, renewal or not, and a replacement carries the same email.
C7_IdentityIsPresented ==
    \A r \in Reqs :
        LET q == reqs[r]
            t == PresentedToken(q)
        IN  (PastGate(q) \/ HandlerInvoked(q)) =>
                /\ q.user = [email |-> t.email, iat |-> t.iat, exp |-> t.exp]
                /\ q.newToken # NoToken => q.newToken.email = t.email

\* the handler ran with a renewal staged whose claims differ from req.user
C7_Witness ==
    \E r \in Reqs :
        /\ "handler" \in reqs[r].invoked
        /\ reqs[r].newToken # NoToken
        /\ reqs[r].newToken.exp # reqs[r].user.exp
        /\ reqs[r].user.email = "b"

\* C8: logout changes nothing on the server: a request that presents a token
\* cleared by logoutUser is turned away by authenticateJWT only once the
\* token's expiry has come.
C8_LogoutDoesNotRevoke ==
    /\ JWT = Secret
    /\ \A r \in Reqs :
          LET q == reqs[r] IN
          (q.afterLogout /\ q.sentBy = "authenticateJWT") =>
              /\ q.verifiedAt >= PresentedToken(q).exp
              /\ q.status = 403

\* a token cleared by logoutUser passed authenticateJWT afterwards
C8_Witness ==
    \E r \in Reqs :
        /\ reqs[r].afterLogout
        /\ reqs[r].pc = "refreshToken"
        /\ jar = NoCookies

\* C9: every login or registration answered 200 / 201 set both cookies, and
\* a login answered 401 set none.
C9_IssuanceSetsBothCookies ==
    authResp.op \in {"login", "register"} =>
        /\ authResp.status \in {200, 201} =>
              authResp.cookies = {"token", "userId"}
        /\ authResp.status = 401 => authResp.cookies = {}

\* C10 as stated: the staged token is attached once and is staged no more
\* once the response went out.
C10_ConsumedOnceThenDiscarded ==
    \A r \in Reqs :
        LET q == reqs[r] IN
        (q.pc = "done" /\ q.sentAuth # NoToken) =>
            /\ q.newToken = NoToken
            /\ q.setHeaderCalls = 1

\* C10 as the code has it: each answered request went through the wrapped
\* res.json once; a renewed token is written to the body once, set as the
\* Authorization header twice (by refreshToken and by the wrapper) with one
\* value, and stays in res.locals.newToken after the response went out.
C10_AttachedAndStillStaged ==
    \A r \in Reqs :
        LET q == reqs[r] IN
        (q.pc = "done" /\ q.sentBy = "handler") =>
            /\ q.jsonCalls = 1
            /\ q.sentAuth # NoToken =>
                  /\ q.newToken = q.sentAuth
                  /\ q.setHeaderCalls = 2
                  /\ q.bodyTokenWrites = 1
            /\ q.sentAuth = NoToken =>
                  /\ q.newToken = NoToken
                  /\ q.setHeaderCalls = 0
                  /\ q.bodyTokenWrites = 0

\* a renewed token went out in a 200 response
C10_Witness ==
    \E r \in Reqs :
        /\ reqs[r].pc = "done"
        /\ reqs[r].status = 200
        /\ reqs[r].sentAuth # NoToken
        /\ reqs[r].setHeaderCalls = 2

\* what a request may carry of a staged token: nothing, or a token signed
\* for the email of the token it presented itself
OwnRenewal(q, t) == t = NoToken \/ (t.kind = "jwt" /\ t.email = PresentedToken(q).email)

\* C11: with requests interleaved, each request carries only its own values:
\* req.user is the payload of the token that request presented, a staged or
\* delivered replacement was minted for that request's own subject, nothing
\* is staged for a request before its own refreshToken ran, and a request
\* that has not arrived carries nothing.
C11_NoLeakAcrossRequests ==
    \A r \in Reqs :
        LET q == reqs[r]
            t == PresentedToken(q)
        IN  /\ q.pc = "idle" => q = Idle
            /\ (PastGate(q) \/ HandlerInvoked(q)) =>
                  q.user = [email |-> t.email, iat |-> t.iat, exp |-> t.exp]
            /\ q.user \in {NoPayload, [email |-> t.email, iat |-> t.iat, exp |-> t.exp]}
            /\ OwnRenewal(q, q.newToken)
            /\ OwnRenewal(q, q.authHeader)
            /\ OwnRenewal(q, q.sentAuth)
            /\ q.bodyToken \in {NoToken, StoredToken, q.newToken}
            /\ "refreshToken" \notin q.invoked =>
                  /\ q.newToken = NoToken
                  /\ q.authHeader = NoToken
            /\ q.jsonWrapped <=> (q.pc = "handler" \/ "handler" \in q.invoked)

\* two requests of different subjects are in the pipeline at once: one was
\* answered with its renewed token while the other, past the gate, has
\* nothing staged
C11_Witness ==
    \E r1 \in Reqs, r2 \in Reqs :
        /\ r1 # r2
        /\ reqs[r1].pc = "done"
        /\ reqs[r1].sentAuth # NoToken
        /\ reqs[r1].user.email = "a"
        /\ reqs[r2].pc = "refreshToken"
        /\ reqs[r2].user.email = "b"

====
